---- MODULE Spec2Model ----
(***************************************************************************)
(* Model of the TPC-H benchmark helpers of pola-rs/tpch:                   *)
(*   - the result verifiers  (dask_queries/utils.py,                       *)
(*                            pandas_queries/pandas_tpch_utils.py)         *)
(*   - run_query             (dask_queries/utils.py)                       *)
(*   - the dataset loaders   (dask_queries/utils.py)                       *)
(*   - query 7               (queries/polars/q7.py)                        *)
(*   - prep_data             (scripts/plot_bars.py)                        *)
(* Strings whose whitespace matters are sequences of one-character         *)
(* strings, so that str.strip() is an operation and not the identity.      *)
(* Floats are integers counted in units of 1e-8, so that the tolerance of  *)
(* pandas' assert_series_equal (rtol 1e-5, atol 1e-8) is computed.         *)
(***************************************************************************)
EXTENDS Integers, Sequences, FiniteSets, TLC

VARIABLES
    script,        \* the script this process runs: "verify", "q7", "plot" or "loader"
    \* ---- verifier / run_query ----
    answers_dir,   \* q_num -> the q<q_num>.out file as read_csv parses it, or NoFile
    q_num,         \* the query number of this script invocation
    solution,      \* "dask" or "pandas": which utils module the script uses
    pc,            \* position of the script: "start", "computed", "returned", "raised"
    result,        \* the result frame the query produced (NoResult before)
    error,         \* the exception that left the script ("none" if none)
    query_calls,   \* how many times query() ran
    test_calls,    \* how many times test_results ran
    \* ---- query 7 ----
    nation_ds, customer_ds, orders_ds, supplier_ds, line_item_ds,  \* the tables
    q7_result,     \* what the last run of query 7 returned (NoResult before)
    q7_first,      \* what the first run of query 7 returned
    q7_runs,       \* how many times query 7 ran
    q7_reordered,  \* the line items changed their row order after the first run
    \* ---- plot_bars ----
    timings,       \* the rows of the timing CSV, in file order
    plot_include_io, \* settings.run.include_io
    plot_pc,       \* "start", "returned" or "raised"
    plot_df,       \* the table prep_data returned
    \* ---- dataset loaders ----
    INCLUDE_IO,    \* the execution mode of the process
    loader_cache,  \* per loader function, the table its wrapper holds (NotLoaded before)
    read_log,      \* the paths __read_parquet_ds was called with, in order
    last_call,     \* the last loader call: [loader, base_dir, returned]
    loader_calls   \* how many loader calls were made

verify_vars == <<answers_dir, q_num, solution, pc, result, error, query_calls, test_calls>>

q7_vars == <<nation_ds, customer_ds, orders_ds, supplier_ds, line_item_ds,
             q7_result, q7_first, q7_runs, q7_reordered>>

plot_vars == <<timings, plot_include_io, plot_pc, plot_df>>

loader_vars == <<INCLUDE_IO, loader_cache, read_log, last_call, loader_calls>>

vars == <<script, verify_vars, q7_vars, plot_vars, loader_vars>>

(***************************************************************************)
(* Bounds                                                                  *)
(***************************************************************************)
MaxRows == 2
MaxLineItems == 2
MaxRuns == 2
MaxTimings == 2
MaxCalls == 3
\* settings.plot.n_queries
NQueries == 2

(***************************************************************************)
(* Strings and str.strip()                                                 *)
(***************************************************************************)
RECURSIVE LStrip(_)
LStrip(s) == IF s # <<>> /\ Head(s) = " " THEN LStrip(Tail(s)) ELSE s

RECURSIVE RStrip(_)
RStrip(s) == IF s # <<>> /\ s[Len(s)] = " " THEN RStrip(SubSeq(s, 1, Len(s) - 1)) ELSE s

\* str.strip(): leading and trailing whitespace removed, inner whitespace kept
Strip(s) == RStrip(LStrip(s))

Range(s) == {s[i] : i \in DOMAIN s}

\* the sequences over S of length 0..n
RECURSIVE SeqsUpTo(_, _)
SeqsUpTo(S, n) ==
    IF n = 0 THEN {<<>>}
    ELSE LET shorter == SeqsUpTo(S, n - 1)
         IN  shorter \cup {Append(s, x) : s \in {t \in shorter : Len(t) = n - 1}, x \in S}

Abs(x) == IF x < 0 THEN -x ELSE x
Max(a, b) == IF a >= b THEN a ELSE b

(***************************************************************************)
(* Frames.  A series is [name, dtype, vals]; a frame is [index, cols]      *)
(* with cols a sequence of series, looked up by name.                      *)
(***************************************************************************)
\* records, so that they compare with frames
NoFile == [missing |-> TRUE]
NoResult == [computed |-> FALSE]

RangeIndex(n) == [i \in 1..n |-> i - 1]
ReversedIndex(n) == [i \in 1..n |-> n - i]

HasColumn(df, c) == \E i \in DOMAIN df.cols : df.cols[i].name = c

\* df[c]: the first column named c (callers check HasColumn: a KeyError otherwise)
Column(df, c) ==
    df.cols[CHOOSE i \in DOMAIN df.cols :
                /\ df.cols[i].name = c
                /\ \A j \in DOMAIN df.cols : df.cols[j].name = c => i <= j]

\* one unit is 1e-8, so 1.0 is 100000000
\* cells of the reference files: string cells are padded, as dbgen writes them
AnswerStr == {<<" ", "F", " ">>, <<"G">>}
AnswerNum == {100000000, 200000000}
\* cells an engine computes: 100000100 is 1.000001, within rtol of 1.0
ResultStr == {<<"F">>, <<"G">>}
ResultNum == {100000100, 200000000}

\* the header of the reference file: names as written, with their whitespace
HeaderN == <<"n", " ">>
HeaderR == <<"r">>
ColN == <<"n">>
ColR == <<"r">>
ColX == <<"x">>

QueryNums == {7, 8}

\* what pd.read_csv(join(base_dir, f"q{query}.out"), sep="|") returns: the header
\* names unstripped, an object column and a float64 column, a RangeIndex
AnswerFiles ==
    {[index |-> RangeIndex(Len(n)),
      cols  |-> <<[name |-> HeaderN, dtype |-> "object",  vals |-> n],
                  [name |-> HeaderR, dtype |-> "float64", vals |-> r]>>] :
        <<n, r>> \in {p \in SeqsUpTo(AnswerStr, MaxRows) \X SeqsUpTo(AnswerNum, MaxRows) :
                         Len(p[1]) = Len(p[2])}}

\* the answers directory: at most one reference file is present
AnswerDirs ==
    {[qn \in QueryNums |-> NoFile]} \cup
    {[qn \in QueryNums |-> IF qn = k THEN f ELSE NoFile] : k \in QueryNums, f \in AnswerFiles}

\* the frames a query may return: any subset of the columns n, r, x with any
\* cells, the numeric column as float64 or int64, the index in order or not
ResultFramesOfLen(k) ==
    {[index |-> ix,
      cols  |-> (IF ColN \in cs THEN <<[name |-> ColN, dtype |-> "object", vals |-> n]>> ELSE <<>>)
             \o (IF ColR \in cs THEN <<[name |-> ColR, dtype |-> dt, vals |-> r]>> ELSE <<>>)
             \o (IF ColX \in cs THEN <<[name |-> ColX, dtype |-> "int64", vals |-> [i \in 1..k |-> 0]]>> ELSE <<>>)] :
        ix \in {RangeIndex(k), ReversedIndex(k)},
        cs \in SUBSET {ColN, ColR, ColX},
        n \in {s \in SeqsUpTo(ResultStr, k) : Len(s) = k},
        r \in {s \in SeqsUpTo(ResultNum, k) : Len(s) = k},
        dt \in {"float64", "int64"}}

ResultFrames == UNION {ResultFramesOfLen(k) : k \in 0..MaxRows}

(***************************************************************************)
(* pandas.testing.assert_series_equal, as both verifiers call it           *)
(***************************************************************************)
\* the defaults of assert_series_equal: rtol = 1e-5 (its inverse here), atol = 1e-8
\* (one unit)
RTolInverse == 100000
ATolUnits == 1

\* math.isclose(a, b, rel_tol=rtol, abs_tol=atol) on integers counted in units of
\* 1e-8: |a - b| <= max(rtol * max(|a|, |b|), atol).  The difference is a whole
\* number of units, so comparing it with the floor of the bound is exact.
IsClose(a, b) == Abs(a - b) <= Max(Max(Abs(a), Abs(b)) \div RTolInverse, ATolUnits)

\* TRUE iff the assertion passes.  The length is compared first, then the index
\* (when check_index), the dtype, and the values: floats within the default
\* tolerance, everything else exactly.
assert_series_equal(left, lindex, right, rindex, check_index) ==
    /\ Len(left.vals) = Len(right.vals)
    /\ check_index => lindex = rindex
    /\ left.dtype = right.dtype
    /\ left.name = right.name
    /\ \A i \in DOMAIN left.vals :
          IF left.dtype = "float64"
          THEN IsClose(left.vals[i], right.vals[i])
          ELSE left.vals[i] = right.vals[i]

\* s.astype("string")
astype_string(s) == [s EXCEPT !.dtype = "string"]

\* s.apply(lambda x: x.strip())
apply_strip(s) == [s EXCEPT !.vals = [i \in DOMAIN s.vals |-> Strip(s.vals[i])]]

\* answer_df.rename(columns=lambda x: x.strip())
rename_strip(df) ==
    [df EXCEPT !.cols = [i \in DOMAIN df.cols |->
                            [df.cols[i] EXCEPT !.name = Strip(df.cols[i].name)]]]

\* get_query_answer without the rename: the header names keep their whitespace
get_query_answer_unstripped(dir, query) == dir[query]

\* get_query_answer of both modules: the parsed file with its header stripped
get_query_answer(dir, query) ==
    IF dir[query] = NoFile THEN NoFile ELSE rename_strip(dir[query])

(***************************************************************************)
(* test_results of dask_queries/utils.py                                   *)
(***************************************************************************)
dask_compare_column(answer, result_df, c) ==
    LET t  == Column(answer, c).dtype
        s1 == IF t = "object" THEN apply_strip(astype_string(Column(result_df, c)))
                              ELSE Column(result_df, c)
        s2 == IF t = "object" THEN apply_strip(astype_string(Column(answer, c)))
                              ELSE Column(answer, c)
    IN  assert_series_equal(s1, result_df.index, s2, answer.index, FALSE)

\* the loop over answer.dtypes.items(), from column i on: the first failure ends it
RECURSIVE dask_loop(_, _, _)
dask_loop(answer, result_df, i) ==
    IF i > Len(answer.cols) THEN "ok"
    ELSE LET c == answer.cols[i].name
         IN  IF ~HasColumn(result_df, c) THEN "KeyError"
             ELSE IF ~dask_compare_column(answer, result_df, c) THEN "AssertionError"
             ELSE dask_loop(answer, result_df, i + 1)

dask_test_results(dir, qn, result_df) ==
    LET answer == get_query_answer(dir, qn)
    IN  IF answer = NoFile THEN "FileNotFoundError" ELSE dask_loop(answer, result_df, 1)

(***************************************************************************)
(* test_results of pandas_queries/pandas_tpch_utils.py                     *)
(***************************************************************************)
\* answer.reset_index(drop=True)
reset_index(df) == [df EXCEPT !.index = RangeIndex(Len(df.index))]

pandas_compare_column(answer, result_df, c) ==
    LET t  == Column(answer, c).dtype
        s1 == IF t = "object" THEN astype_string(Column(answer, c)) ELSE Column(answer, c)
        s2 == IF t = "object" THEN astype_string(Column(result_df, c)) ELSE Column(result_df, c)
    IN  assert_series_equal(s1, answer.index, s2, result_df.index, TRUE)

RECURSIVE pandas_loop(_, _, _)
pandas_loop(answer, result_df, i) ==
    IF i > Len(answer.cols) THEN "ok"
    ELSE LET c == answer.cols[i].name
         IN  IF ~HasColumn(result_df, c) THEN "KeyError"
             ELSE IF ~pandas_compare_column(answer, result_df, c) THEN "AssertionError"
             ELSE pandas_loop(answer, result_df, i + 1)

pandas_test_results(dir, qn, result_df) ==
    LET file == get_query_answer(dir, qn)
    IN  IF file = NoFile THEN "FileNotFoundError"
        ELSE pandas_loop(reset_index(file), result_df, 1)

(***************************************************************************)
(* The script: run_query of dask_queries/utils.py, and a pandas query      *)
(* script calling its test_results on the result it computed.              *)
(***************************************************************************)
VerifyInit ==
    /\ answers_dir \in AnswerDirs
    /\ q_num \in QueryNums
    /\ solution \in {"dask", "pandas"}
    /\ pc = "start"
    /\ result = NoResult
    /\ error = "none"
    /\ query_calls = 0
    /\ test_calls = 0

\* result = query()
run_query_query ==
    /\ script = "verify"
    /\ pc = "start"
    /\ \E r \in ResultFrames : result' = r
    /\ query_calls' = query_calls + 1
    /\ pc' = "computed"
    /\ UNCHANGED <<answers_dir, q_num, solution, error, test_calls>>
    /\ UNCHANGED <<script, q7_vars, plot_vars, loader_vars>>

\* run() with the verification wrapped in a try/except that logs and goes on
run_query_finish_swallowing(outcome) ==
    /\ test_calls' = test_calls + 1
    /\ error' = "none"
    /\ pc' = "returned"

\* the outcome of test_results(q_num, result) decides how run() is left
run_query_finish(outcome) ==
    /\ test_calls' = test_calls + 1
    /\ error' = IF outcome = "ok" THEN "none" ELSE outcome
    /\ pc' = IF outcome = "ok" THEN "returned" ELSE "raised"

\* print(result); test_results(q_num, result): nothing catches what it raises
run_query_test ==
    /\ script = "verify"
    /\ pc = "computed"
    /\ solution = "dask"
    /\ run_query_finish(dask_test_results(answers_dir, q_num, result))
    /\ UNCHANGED <<answers_dir, q_num, solution, result, query_calls>>
    /\ UNCHANGED <<script, q7_vars, plot_vars, loader_vars>>

\* the pandas script: test_results(q_num, result) of pandas_tpch_utils
pandas_test ==
    /\ script = "verify"
    /\ pc = "computed"
    /\ solution = "pandas"
    /\ run_query_finish(pandas_test_results(answers_dir, q_num, result))
    /\ UNCHANGED <<answers_dir, q_num, solution, result, query_calls>>
    /\ UNCHANGED <<script, q7_vars, plot_vars, loader_vars>>

VerifyNext == run_query_query \/ run_query_test \/ pandas_test

VerifyIdle ==
    /\ answers_dir = [qn \in QueryNums |-> NoFile]
    /\ q_num = 7
    /\ solution = "dask"
    /\ pc = "start"
    /\ result = NoResult
    /\ error = "none"
    /\ query_calls = 0
    /\ test_calls = 0

(***************************************************************************)
(* Query 7 (queries/polars/q7.py).  Rows are records; a table is a         *)
(* sequence of rows.  Dates are the integers YYYYMMDD.  l_extendedprice    *)
(* is in cents and l_discount in percent, so price * (1 - discount) is     *)
(* price * (100 - discount) in units of 1e-4.                              *)
(***************************************************************************)
var1 == "FRANCE"
var2 == "GERMANY"
var3 == 19950101
var4 == 19961231

\* Python compares strings lexicographically; the ranks of the nation names used
NameRank(n) == CASE n = "BRAZIL" -> 1 [] n = "FRANCE" -> 2 [] n = "GERMANY" -> 3

\* lf.filter(pred)
Filter(rows, pred(_)) == SelectSeq(rows, pred)

\* the row of an inner join: the left row's columns and the right row's columns
\* other than its key
JoinRow(l, r, right_on) ==
    [f \in DOMAIN l \cup (DOMAIN r \ {right_on}) |-> IF f \in DOMAIN l THEN l[f] ELSE r[f]]

RECURSIVE MatchesOf(_, _, _, _)
MatchesOf(l, right, left_on, right_on) ==
    IF right = <<>> THEN <<>>
    ELSE (IF Head(right)[right_on] = l[left_on]
          THEN <<JoinRow(l, Head(right), right_on)>> ELSE <<>>)
         \o MatchesOf(l, Tail(right), left_on, right_on)

\* left.join(right, left_on=..., right_on=...): an inner join, one row for each
\* pair of rows with equal keys
RECURSIVE Join(_, _, _, _)
Join(left, right, left_on, right_on) ==
    IF left = <<>> THEN <<>>
    ELSE MatchesOf(Head(left), right, left_on, right_on)
         \o Join(Tail(left), right, left_on, right_on)

\* lf.rename({old: new})
RenameRow(r, old, new) ==
    [f \in (DOMAIN r \ {old}) \cup {new} |-> IF f = new THEN r[old] ELSE r[f]]

Rename(rows, old, new) == [i \in DOMAIN rows |-> RenameRow(rows[i], old, new)]

\* is_between(lo, hi, closed="left"): the upper end left out
is_between_closed_left(d, lo, hi) == lo <= d /\ d < hi

\* pl.col("l_shipdate").is_between(lo, hi): both ends belong to the interval
is_between(d, lo, hi) == lo <= d /\ d <= hi

\* pl.col("l_shipdate").dt.year()
dt_year(d) == d \div 10000

\* pl.col("l_extendedprice") * (1 - pl.col("l_discount"))
volume_of(r) == r.l_extendedprice * (100 - r.l_discount)

\* .with_columns(volume, l_year)
with_columns(rows) ==
    [i \in DOMAIN rows |->
        [f \in DOMAIN rows[i] \cup {"volume", "l_year"} |->
            IF f = "volume" THEN volume_of(rows[i])
            ELSE IF f = "l_year" THEN dt_year(rows[i].l_shipdate)
            ELSE rows[i][f]]]

GroupKey(r) == <<r.supp_nation, r.cust_nation, r.l_year>>

\* pl.sum("volume") over the rows of one group
RECURSIVE SumVolume(_, _)
SumVolume(rows, key) ==
    IF rows = <<>> THEN 0
    ELSE (IF GroupKey(Head(rows)) = key THEN Head(rows).volume ELSE 0)
         + SumVolume(Tail(rows), key)

\* the rows .group_by("supp_nation", "cust_nation", "l_year").agg(sum) yields, as a
\* set: group_by promises no order of the groups
GroupRows(rows) ==
    {[supp_nation |-> k[1], cust_nation |-> k[2], l_year |-> k[3],
      revenue |-> SumVolume(rows, k)] : k \in {GroupKey(rows[i]) : i \in DOMAIN rows}}

\* the orders in which a set of rows may come out
Orderings(S) ==
    {f \in [1..Cardinality(S) -> S] : \A i, j \in 1..Cardinality(S) : i # j => f[i] # f[j]}

\* by=["supp_nation", "cust_nation", "l_year"], ascending
SortKeyLess(a, b) ==
    \/ NameRank(a.supp_nation) < NameRank(b.supp_nation)
    \/ /\ a.supp_nation = b.supp_nation
       /\ \/ NameRank(a.cust_nation) < NameRank(b.cust_nation)
          \/ a.cust_nation = b.cust_nation /\ a.l_year < b.l_year

\* r put into the sorted sequence, after the rows that are not greater
RECURSIVE Insert(_, _)
Insert(sorted, r) ==
    IF sorted = <<>> THEN <<r>>
    ELSE IF SortKeyLess(r, Head(sorted)) THEN <<r>> \o sorted
    ELSE <<Head(sorted)>> \o Insert(Tail(sorted), r)

\* q_final without its .sort(...)
Unsorted(rows) == rows

\* .sort(by=[...]): the rows in ascending key order, equal keys in their order
RECURSIVE Sort(_)
Sort(rows) ==
    IF rows = <<>> THEN <<>>
    ELSE Insert(Sort(SubSeq(rows, 1, Len(rows) - 1)), rows[Len(rows)])

IsN1(r) == r.n_name = var1
IsN2(r) == r.n_name = var2
InShipWindow(r) == is_between(r.l_shipdate, var3, var4)

\* df1 and df2: customers of nation a, their orders and line items, the suppliers
\* of nation b
q7_df(customers, orders, items, suppliers, na, nb) ==
    LET j1 == Join(customers, na, "c_nationkey", "n_nationkey")
        j2 == Join(j1, orders, "c_custkey", "o_custkey")
        j3 == Rename(j2, "n_name", "cust_nation")
        j4 == Join(j3, items, "o_orderkey", "l_orderkey")
        j5 == Join(j4, suppliers, "l_suppkey", "s_suppkey")
        j6 == Join(j5, nb, "s_nationkey", "n_nationkey")
    IN  Rename(j6, "n_name", "supp_nation")

\* pl.concat([df1, df2]).filter(...).with_columns(...): the rows that are grouped
q7_rows(nations, customers, orders, items, suppliers) ==
    LET n1  == Filter(nations, IsN1)
        n2  == Filter(nations, IsN2)
        df1 == q7_df(customers, orders, items, suppliers, n1, n2)
        df2 == q7_df(customers, orders, items, suppliers, n2, n1)
    IN  with_columns(Filter(df1 \o df2, InShipWindow))

\* the tables of the dataset.  Keys are unique, as in every TPC-H dataset.
NationTable ==
    <<[n_nationkey |-> 1, n_name |-> "BRAZIL"],
      [n_nationkey |-> 2, n_name |-> "FRANCE"],
      [n_nationkey |-> 3, n_name |-> "GERMANY"]>>

\* one customer and one supplier of each nation
CustomerTable == [k \in 1..3 |-> [c_custkey |-> k, c_nationkey |-> k]]
SupplierTable == [k \in 1..3 |-> [s_suppkey |-> k, s_nationkey |-> k]]

\* one order of each customer, and a second order of the French one (without
\* line items)
OrdersTable ==
    <<[o_orderkey |-> 1, o_custkey |-> 1],
      [o_orderkey |-> 2, o_custkey |-> 2],
      [o_orderkey |-> 3, o_custkey |-> 3],
      [o_orderkey |-> 4, o_custkey |-> 2]>>

\* the days before, at and after both ends of the shipping window
ShipDates == {19941231, 19950101, 19961231, 19970101}

PriceAndDiscount == {<<100, 0>>, <<200, 10>>}

\* <<order, supplier>> of a line item: the customer's and the supplier's nations
\* are FRANCE/GERMANY, GERMANY/FRANCE, FRANCE/FRANCE, GERMANY/GERMANY,
\* BRAZIL/GERMANY and FRANCE/BRAZIL
OrderAndSupplier == {<<2, 3>>, <<3, 2>>, <<2, 2>>, <<3, 3>>, <<1, 3>>, <<2, 1>>}

LineItems ==
    {[l_orderkey |-> os[1], l_suppkey |-> os[2], l_shipdate |-> d,
      l_extendedprice |-> pd[1], l_discount |-> pd[2]] :
        os \in OrderAndSupplier, d \in ShipDates, pd \in PriceAndDiscount}

Q7Init ==
    /\ nation_ds = NationTable
    /\ customer_ds = CustomerTable
    /\ orders_ds = OrdersTable
    /\ supplier_ds = SupplierTable
    /\ line_item_ds \in SeqsUpTo(LineItems, MaxLineItems)
    /\ q7_result = NoResult
    /\ q7_first = NoResult
    /\ q7_runs = 0
    /\ q7_reordered = FALSE

Q7Idle ==
    /\ nation_ds = <<>>
    /\ customer_ds = <<>>
    /\ orders_ds = <<>>
    /\ supplier_ds = <<>>
    /\ line_item_ds = <<>>
    /\ q7_result = NoResult
    /\ q7_first = NoResult
    /\ q7_runs = 0
    /\ q7_reordered = FALSE

\* q(): q_final collected.  The groups come out of group_by in any order and
\* are then sorted.
q ==
    /\ script = "q7"
    /\ q7_runs < MaxRuns
    /\ \E grouped \in Orderings(GroupRows(q7_rows(nation_ds, customer_ds, orders_ds,
                                                  line_item_ds, supplier_ds))) :
          q7_result' = Sort(grouped)
    /\ q7_first' = IF q7_runs = 0 THEN q7_result' ELSE q7_first
    /\ q7_runs' = q7_runs + 1
    /\ UNCHANGED <<nation_ds, customer_ds, orders_ds, supplier_ds, line_item_ds, q7_reordered>>
    /\ UNCHANGED <<script, verify_vars, plot_vars, loader_vars>>

\* the same dataset stored in another row order: two neighbouring line items
\* change places
reorder_line_items ==
    /\ script = "q7"
    /\ \E i \in 1..(Len(line_item_ds) - 1) :
          /\ line_item_ds[i] # line_item_ds[i + 1]
          /\ line_item_ds' = [line_item_ds EXCEPT ![i] = line_item_ds[i + 1],
                                                  ![i + 1] = line_item_ds[i]]
    /\ q7_reordered' = (q7_reordered \/ q7_runs >= 1)
    /\ UNCHANGED <<nation_ds, customer_ds, orders_ds, supplier_ds, q7_result, q7_first, q7_runs>>
    /\ UNCHANGED <<script, verify_vars, plot_vars, loader_vars>>

Q7Next == q \/ reorder_line_items


(***************************************************************************)
(* prep_data (scripts/plot_bars.py).  A timing entry is                    *)
(* [solution, version, query_number, include_io, duration]; the            *)
(* scale_factor column is dropped first and is left out.  Null is the      *)
(* missing duration a left join leaves.                                    *)
(***************************************************************************)
\* the keys of the COLORS dict, in its order, with their colors
COLORS ==
    <<<<"polars", "#0075FF">>,
      <<"polars-eager", "#00B4D8">>,
      <<"duckdb", "#80B9C8">>,
      <<"pyspark", "#C29470">>,
      <<"dask", "#77D487">>,
      <<"pandas", "#2B8C5D">>,
      <<"modin", "#50B05F">>>>

ColorKeys == {COLORS[i][1] : i \in DOMAIN COLORS}

Null == -1

\* io = pl.col("include_io") or ~pl.col("include_io"); lf.filter(io)
select_io(rows, include_io) ==
    LET io(r) == IF include_io THEN r.include_io ELSE ~r.include_io
    IN  SelectSeq(rows, io)

\* the filter with < for <=
select_queries_below(rows) ==
    LET relevant(r) == r.query_number < NQueries
    IN  SelectSeq(rows, relevant)

\* lf.filter(pl.col("query_number") <= settings.plot.n_queries)
select_relevant_queries(rows) ==
    LET relevant(r) == r.query_number <= NQueries
    IN  SelectSeq(rows, relevant)

CombinationOf(r) == <<r.solution, r.version, r.query_number>>

\* .first() of a group
first(rows, key) ==
    LET of_key == {i \in DOMAIN rows : CombinationOf(rows[i]) = key}
    IN  rows[CHOOSE i \in of_key : \A j \in of_key : i <= j].duration

\* .last() of a group: the duration of its last row
last(rows, key) ==
    LET of_key == {i \in DOMAIN rows : CombinationOf(rows[i]) = key}
    IN  rows[CHOOSE i \in of_key : \A j \in of_key : j <= i].duration

\* lf.group_by("solution", "version", "query_number").last(), as the map from the
\* combinations present to their duration (the order of the groups is not used)
group_by_last(rows) ==
    [key \in {CombinationOf(rows[i]) : i \in DOMAIN rows} |-> last(rows, key)]

\* lf.select("solution", "version").unique(), as a set: unique promises no order
unique_groups(rows) == {<<rows[i].solution, rows[i].version>> : i \in DOMAIN rows}

\* groups.join(queries, how="cross") with queries = 1..n_queries in order, then
\* the left join with the last timings: a combination without one gets Null
RECURSIVE groups_queries(_, _)
groups_queries(groups, lasts) ==
    IF groups = <<>> THEN <<>>
    ELSE [n \in 1..NQueries |->
             LET key == <<Head(groups)[1], Head(groups)[2], n>>
             IN  [solution |-> key[1], version |-> key[2], query_number |-> n,
                  duration |-> IF key \in DOMAIN lasts THEN lasts[key] ELSE Null]]
         \o groups_queries(Tail(groups), lasts)

\* the durations as the left join leaves them
keep_null(d) == d

\* pl.col("duration[s]").fill_null(0)
fill_null(d) == IF d = Null THEN 0 ELSE d

\* [s for s in COLORS if s in solutions_in_data]
RECURSIVE solutions_in_color_order(_, _)
solutions_in_color_order(colors, solutions_in_data) ==
    IF colors = <<>> THEN <<>>
    ELSE (IF Head(colors)[1] \in solutions_in_data THEN <<Head(colors)[1]>> ELSE <<>>)
         \o solutions_in_color_order(Tail(colors), solutions_in_data)

\* the join with its operands exchanged, lf.join(solution, ...): the rows of lf
\* in their order
join_solutions_exchanged(solutions, rows) ==
    LET known(r) == r.solution \in Range(solutions)
    IN  SelectSeq(rows, known)

\* solution.join(lf, on=["solution"], how="left"): for each solution of the left
\* frame in its order, the rows of lf with that solution in their order
RECURSIVE join_solutions(_, _)
join_solutions(solutions, rows) ==
    IF solutions = <<>> THEN <<>>
    ELSE LET mine(r) == r.solution = Head(solutions)
         IN  SelectSeq(rows, mine) \o join_solutions(Tail(solutions), rows)

\* str(n): the decimal digits of a natural number
DigitChars == <<"0", "1", "2", "3", "4", "5", "6", "7", "8", "9">>

RECURSIVE Decimal(_)
Decimal(n) ==
    IF n < 10 THEN <<DigitChars[n + 1]>>
    ELSE Decimal(n \div 10) \o <<DigitChars[(n % 10) + 1]>>

\* pl.format("Q{}", "query_number")
format_query(n) == <<"Q">> \o Decimal(n)

\* prep_data, for one order in which unique() yields the groups
prep_data_rows(csv, include_io, groups) ==
    LET lf1   == select_relevant_queries(select_io(csv, include_io))
        lasts == group_by_last(lf1)
        lf2   == groups_queries(groups, lasts)
        lf3   == [i \in DOMAIN lf2 |-> [lf2[i] EXCEPT !.duration = fill_null(@)]]
        sols  == solutions_in_color_order(COLORS, {lf3[i].solution : i \in DOMAIN lf3})
        lf4   == join_solutions(sols, lf3)
    IN  [i \in DOMAIN lf4 |->
            [solution |-> lf4[i].solution, version |-> lf4[i].version,
             query |-> format_query(lf4[i].query_number), duration |-> lf4[i].duration]]

\* color_seq of plot(): the colors of the solutions in the table, in COLORS order
color_seq(df) ==
    LET present(c) == \E i \in DOMAIN df : df[i].solution = c[1]
        kept == SelectSeq(COLORS, present)
    IN  [i \in DOMAIN kept |-> kept[i][2]]

\* the solutions that are timed: two in the legend, one that is not
SolutionVersions ==
    {<<"polars", "1.0">>, <<"polars", "2.0">>, <<"dask", "1.0">>, <<"vaex", "1.0">>}

TimingKeys ==
    {[solution |-> sv[1], version |-> sv[2], query_number |-> n, include_io |-> io] :
        sv \in SolutionVersions, n \in 1..(NQueries + 1), io \in BOOLEAN}

\* the timing CSVs: the i-th entry took i seconds, so every entry is told apart
TimingFiles ==
    {[i \in DOMAIN keys |->
        [solution |-> keys[i].solution, version |-> keys[i].version,
         query_number |-> keys[i].query_number, include_io |-> keys[i].include_io,
         duration |-> i]] : keys \in SeqsUpTo(TimingKeys, MaxTimings)}

NoTable == <<>>

PlotInit ==
    /\ timings \in TimingFiles
    /\ plot_include_io \in BOOLEAN
    /\ plot_pc = "start"
    /\ plot_df = NoTable

PlotIdle ==
    /\ timings = <<>>
    /\ plot_include_io = FALSE
    /\ plot_pc = "start"
    /\ plot_df = NoTable

\* the entries the two filters keep
Selected == select_relevant_queries(select_io(timings, plot_include_io))

LegendSolutionsSelected == {Selected[i].solution : i \in DOMAIN Selected} \cap ColorKeys

\* prep_data() returns the table, the groups having come out of unique() in
\* some order
prep_data ==
    /\ script = "plot"
    /\ plot_pc = "start"
    /\ LegendSolutionsSelected # {}
    /\ \E groups \in Orderings(unique_groups(Selected)) :
          plot_df' = prep_data_rows(timings, plot_include_io, groups)
    /\ plot_pc' = "returned"
    /\ UNCHANGED <<timings, plot_include_io>>
    /\ UNCHANGED <<script, verify_vars, q7_vars, loader_vars>>

\* no entry of a solution of the legend is left after the filters: the solution
\* frame is built from an empty list, whose column has no string type.
\* Depending on the polars version the join on it is refused or yields an empty
\* table.
prep_data_empty ==
    /\ script = "plot"
    /\ plot_pc = "start"
    /\ LegendSolutionsSelected = {}
    /\ plot_pc' \in {"returned", "raised"}
    /\ plot_df' = NoTable
    /\ UNCHANGED <<timings, plot_include_io>>
    /\ UNCHANGED <<script, verify_vars, q7_vars, loader_vars>>


(***************************************************************************)
(* The dataset loaders of dask_queries/utils.py.  @on_second_call is       *)
(* defined in the repository's utils module; it is modelled as section     *)
(* 4.1 and the design notes describe it: one slot of process-wide state    *)
(* per decorated function, filled by the first call and returned by every  *)
(* call, whatever its arguments.                                           *)
(***************************************************************************)
NotLoaded == [loaded |-> FALSE]
NoCall == [called |-> FALSE]

BaseDirs == {"tables_scale_1", "tables_scale_10"}

Loaders ==
    {"get_line_item_ds", "get_orders_ds", "get_customer_ds", "get_region_ds",
     "get_nation_ds", "get_supplier_ds", "get_part_ds", "get_part_supp_ds"}

\* os.path.join(base_dir, name)
join(base_dir, name) == <<base_dir, name>>

\* __read_parquet_ds(path): a deferred dask frame over the file when IO is
\* included, else the file read at once and handed to dask
read_parquet_ds(path) == [path |-> path, deferred |-> INCLUDE_IO]

\* a call of a function wrapped by @on_second_call whose body reads `path`
on_second_call(loader, base_dir, path) ==
    /\ IF loader_cache[loader] = NotLoaded
       THEN /\ loader_cache' = [loader_cache EXCEPT ![loader] = read_parquet_ds(path)]
            /\ read_log' = Append(read_log, path)
       ELSE UNCHANGED <<loader_cache, read_log>>
    /\ last_call' = [loader |-> loader, base_dir |-> base_dir, returned |-> loader_cache'[loader]]
    /\ loader_calls' = loader_calls + 1
    /\ UNCHANGED INCLUDE_IO
    /\ UNCHANGED <<script, verify_vars, q7_vars, plot_vars>>

\* a call of a loader that is not wrapped, as the loaders of pandas_tpch_utils
undecorated(loader, base_dir, path) ==
    /\ read_log' = Append(read_log, path)
    /\ last_call' = [loader |-> loader, base_dir |-> base_dir, returned |-> read_parquet_ds(path)]
    /\ loader_calls' = loader_calls + 1
    /\ UNCHANGED <<INCLUDE_IO, loader_cache>>
    /\ UNCHANGED <<script, verify_vars, q7_vars, plot_vars>>

get_line_item_ds_undecorated(base_dir) ==
    undecorated("get_line_item_ds", base_dir, join(base_dir, "lineitem.parquet"))

get_line_item_ds(base_dir) ==
    on_second_call("get_line_item_ds", base_dir, join(base_dir, "lineitem.parquet"))

get_orders_ds(base_dir) ==
    on_second_call("get_orders_ds", base_dir, join(base_dir, "orders.parquet"))

get_customer_ds(base_dir) ==
    on_second_call("get_customer_ds", base_dir, join(base_dir, "customer.parquet"))

get_region_ds(base_dir) ==
    on_second_call("get_region_ds", base_dir, join(base_dir, "region.parquet"))

get_nation_ds(base_dir) ==
    on_second_call("get_nation_ds", base_dir, join(base_dir, "nation.parquet"))

get_supplier_ds(base_dir) ==
    on_second_call("get_supplier_ds", base_dir, join(base_dir, "supplier.parquet"))

get_part_ds(base_dir) ==
    on_second_call("get_part_ds", base_dir, join(base_dir, "part.parquet"))

get_part_supp_ds(base_dir) ==
    on_second_call("get_part_supp_ds", base_dir, join(base_dir, "partsupp.parquet"))

LoaderInit ==
    /\ INCLUDE_IO \in BOOLEAN
    /\ loader_cache = [f \in Loaders |-> NotLoaded]
    /\ read_log = <<>>
    /\ last_call = NoCall
    /\ loader_calls = 0

LoaderIdle ==
    /\ INCLUDE_IO = FALSE
    /\ loader_cache = [f \in Loaders |-> NotLoaded]
    /\ read_log = <<>>
    /\ last_call = NoCall
    /\ loader_calls = 0

\* the process calls a loader with some base directory; MaxCalls bounds the run
call_line_item ==
    /\ script = "loader"
    /\ loader_calls < MaxCalls
    /\ \E d \in BaseDirs : get_line_item_ds(d)

call_orders ==
    /\ script = "loader"
    /\ loader_calls < MaxCalls
    /\ \E d \in BaseDirs : get_orders_ds(d)

call_customer ==
    /\ script = "loader"
    /\ loader_calls < MaxCalls
    /\ \E d \in BaseDirs : get_customer_ds(d)

call_region ==
    /\ script = "loader"
    /\ loader_calls < MaxCalls
    /\ \E d \in BaseDirs : get_region_ds(d)

call_nation ==
    /\ script = "loader"
    /\ loader_calls < MaxCalls
    /\ \E d \in BaseDirs : get_nation_ds(d)

call_supplier ==
    /\ script = "loader"
    /\ loader_calls < MaxCalls
    /\ \E d \in BaseDirs : get_supplier_ds(d)

call_part ==
    /\ script = "loader"
    /\ loader_calls < MaxCalls
    /\ \E d \in BaseDirs : get_part_ds(d)

call_part_supp ==
    /\ script = "loader"
    /\ loader_calls < MaxCalls
    /\ \E d \in BaseDirs : get_part_supp_ds(d)


LoaderNext ==
    \/ call_line_item
    \/ call_orders
    \/ call_customer
    \/ call_region
    \/ call_nation
    \/ call_supplier
    \/ call_part
    \/ call_part_supp


(***************************************************************************)
(* Specifications                                                          *)
(***************************************************************************)
\* a dask or pandas query script: compute, then verify
InitVerify == script = "verify" /\ VerifyInit /\ Q7Idle /\ PlotIdle /\ LoaderIdle
SpecVerify == InitVerify /\ [][VerifyNext]_vars

\* query 7 run and re-run over a dataset
InitQ7 == script = "q7" /\ Q7Init /\ VerifyIdle /\ PlotIdle /\ LoaderIdle
SpecQ7 == InitQ7 /\ [][Q7Next]_vars

\* the plotting script: prep_data over a timing CSV
PlotNext == prep_data \/ prep_data_empty
InitPlot == script = "plot" /\ PlotInit /\ VerifyIdle /\ Q7Idle /\ LoaderIdle
SpecPlot == InitPlot /\ [][PlotNext]_vars

\* a process calling the dataset loaders
InitLoader == script = "loader" /\ LoaderInit /\ VerifyIdle /\ Q7Idle /\ PlotIdle
SpecLoader == InitLoader /\ [][LoaderNext]_vars

\* any one of the scripts
Init == InitVerify \/ InitQ7 \/ InitPlot \/ InitLoader
Next == VerifyNext \/ Q7Next \/ PlotNext \/ LoaderNext
Spec == Init /\ [][Next]_vars

(***************************************************************************)
(* Claims about the verifiers and run_query                                *)
(***************************************************************************)
Tested == pc \in {"returned", "raised"}
FilePresent == answers_dir[q_num] # NoFile
ReferenceFile == answers_dir[q_num]

\* the result holds every reference column (looked up by its stripped header
\* name) with the reference's number of rows and, cell by cell, the reference's
\* value: strings compared after trimming both sides, numbers exactly
MatchesAfterTrim(file, res) ==
    \A i \in DOMAIN file.cols :
        LET a == file.cols[i]
            c == Strip(a.name)
        IN  /\ HasColumn(res, c)
            /\ Len(Column(res, c).vals) = Len(a.vals)
            /\ Column(res, c).dtype = a.dtype
            /\ \A k \in DOMAIN a.vals :
                  IF a.dtype = "object"
                  THEN Strip(Column(res, c).vals[k]) = Strip(a.vals[k])
                  ELSE Column(res, c).vals[k] = a.vals[k]

\* the result holds every reference column as the very same series: the same
\* dtype, the same cells character by character, the same row labels
AgreesOnReferenceColumns(file, res) ==
    /\ res.index = file.index
    /\ \A i \in DOMAIN file.cols :
          LET a == file.cols[i]
              c == Strip(a.name)
          IN  /\ HasColumn(res, c)
              /\ Column(res, c).dtype = a.dtype
              /\ Column(res, c).vals = a.vals

LacksReferenceColumn(file, res) ==
    \E i \in DOMAIN file.cols : ~HasColumn(res, Strip(file.cols[i].name))

ReferenceNames(file) == {Strip(file.cols[i].name) : i \in DOMAIN file.cols}

\* the result without the columns the reference does not have
RECURSIVE KeepColumns(_, _)
KeepColumns(cols, names) ==
    IF cols = <<>> THEN <<>>
    ELSE (IF Head(cols).name \in names THEN <<Head(cols)>> ELSE <<>>)
         \o KeepColumns(Tail(cols), names)

WithoutExtraColumns(file, res) == [res EXCEPT !.cols = KeepColumns(res.cols, ReferenceNames(file))]

Verifier(sol, dir, qn, res) ==
    IF sol = "dask" THEN dask_test_results(dir, qn, res) ELSE pandas_test_results(dir, qn, res)

Outcome == IF pc = "returned" THEN "ok" ELSE error

\* C1 (as claimed, its accepting half, for results with the default row labels):
\* both verifiers accept a result that matches the reference answer after
\* trimming the string cells of both sides.
C1_AcceptsTrimmedMatch ==
    (/\ Tested
     /\ FilePresent
     /\ result.index = RangeIndex(Len(result.index))
     /\ MatchesAfterTrim(ReferenceFile, result))
    => pc = "returned"

\* C5: run_query computes the query once and verifies it once against the
\* reference answer of its own query number; whatever test_results raises leaves
\* run_query (no retry, no second execution), and run_query returns normally
\* only for a result the verifier accepts.
C5_MismatchIsFatal ==
    solution = "dask" =>
        /\ query_calls <= 1
        /\ test_calls <= 1
        /\ pc = "returned" => /\ dask_test_results(answers_dir, q_num, result) = "ok"
                              /\ error = "none"
        /\ pc = "raised" => /\ error = dask_test_results(answers_dir, q_num, result)
                            /\ error # "ok"
                            /\ query_calls = 1
                            /\ test_calls = 1
                            /\ ~ENABLED Next

C5_Witness ==
    /\ solution = "dask"
    /\ pc = "raised"
    /\ error = "AssertionError"
    /\ FilePresent
    /\ Len(result.index) = Len(ReferenceFile.index)

\* C9: columns are aligned by the stripped reference header names and only the
\* reference's columns are looked at: a result lacking one of them fails, a
\* result with another number of rows fails, the outcome is the one of the
\* result without its extra columns, and a result that agrees on every
\* reference column is accepted whatever else it holds.
C9_ReferenceColumnsOnly ==
    (Tested /\ FilePresent) =>
        /\ LacksReferenceColumn(ReferenceFile, result) => pc = "raised"
        /\ Len(result.index) # Len(ReferenceFile.index) => pc = "raised"
        /\ Outcome = Verifier(solution, answers_dir, q_num,
                              WithoutExtraColumns(ReferenceFile, result))
        /\ AgreesOnReferenceColumns(ReferenceFile, result) => pc = "returned"

C9_Witness ==
    /\ pc = "returned"
    /\ FilePresent
    /\ HasColumn(result, ColX)
    /\ Len(result.index) >= 1
    /\ \E i \in DOMAIN ReferenceFile.cols :
          ReferenceFile.cols[i].name # Strip(ReferenceFile.cols[i].name)

(***************************************************************************)
(* Claims about query 7                                                    *)
(***************************************************************************)
NationNameOf(key) == (CHOOSE n \in Range(nation_ds) : n.n_nationkey = key).n_name

CustNationOf(li) ==
    LET ord  == CHOOSE o \in Range(orders_ds) : o.o_orderkey = li.l_orderkey
        cust == CHOOSE c \in Range(customer_ds) : c.c_custkey = ord.o_custkey
    IN  NationNameOf(cust.c_nationkey)

SuppNationOf(li) ==
    NationNameOf((CHOOSE su \in Range(supplier_ds) : su.s_suppkey = li.l_suppkey).s_nationkey)

\* shipped in 1995 or 1996, between a French and a German party
Qualifies(li) ==
    /\ li.l_shipdate >= 19950101
    /\ li.l_shipdate <= 19961231
    /\ \/ SuppNationOf(li) = "FRANCE" /\ CustNationOf(li) = "GERMANY"
       \/ SuppNationOf(li) = "GERMANY" /\ CustNationOf(li) = "FRANCE"

QualifyingItems == {i \in DOMAIN line_item_ds : Qualifies(line_item_ds[i])}

KeyOfItem(i) ==
    <<SuppNationOf(line_item_ds[i]), CustNationOf(line_item_ds[i]),
      line_item_ds[i].l_shipdate \div 10000>>

RECURSIVE RevenueOf(_)
RevenueOf(items) ==
    IF items = {} THEN 0
    ELSE LET i == CHOOSE j \in items : TRUE
         IN  line_item_ds[i].l_extendedprice * (100 - line_item_ds[i].l_discount)
             + RevenueOf(items \ {i})

KeyBefore(a, b) ==
    \/ NameRank(a[1]) < NameRank(b[1])
    \/ a[1] = b[1] /\ NameRank(a[2]) < NameRank(b[2])
    \/ a[1] = b[1] /\ a[2] = b[2] /\ a[3] < b[3]

\* C6: query 7 returns exactly one row for each (supp_nation, cust_nation, l_year)
\* of the line items shipped from 1995-01-01 to 1996-12-31 between FRANCE and
\* GERMANY, its revenue the sum of price * (1 - discount) over the group's line
\* items, each counted once, the rows ascending by their key.
C6_VolumeShipping ==
    q7_runs >= 1 =>
        /\ {GroupKey(q7_result[i]) : i \in DOMAIN q7_result} = {KeyOfItem(i) : i \in QualifyingItems}
        /\ Len(q7_result) = Cardinality({KeyOfItem(i) : i \in QualifyingItems})
        /\ \A i \in DOMAIN q7_result :
              q7_result[i].revenue =
                  RevenueOf({j \in QualifyingItems : KeyOfItem(j) = GroupKey(q7_result[i])})
        /\ \A i, j \in DOMAIN q7_result :
              i < j => KeyBefore(GroupKey(q7_result[i]), GroupKey(q7_result[j]))

C6_Witness ==
    /\ q7_runs >= 1
    /\ Len(q7_result) = 2
    /\ Cardinality(QualifyingItems) = 2

\* C7: every run of query 7 over the dataset returns the rows of the first run
\* in the same order, whatever the row order of the line items.
C7_Deterministic == q7_runs >= 1 => q7_result = q7_first

C7_Witness ==
    /\ q7_runs = 2
    /\ q7_reordered
    /\ Len(q7_result) = 2

(***************************************************************************)
(* Claims about prep_data                                                  *)
(***************************************************************************)
\* a timing entry of the configured IO mode with a query number up to n_queries
Considered(t) == t.include_io = plot_include_io /\ t.query_number <= NQueries

ConsideredEntries == {i \in DOMAIN timings : Considered(timings[i])}

SurvivingPairs == {<<timings[i].solution, timings[i].version>> : i \in ConsideredEntries}

EntriesOf(s, v, n) ==
    {i \in ConsideredEntries :
        timings[i].solution = s /\ timings[i].version = v /\ timings[i].query_number = n}

\* "Q<n>" for a query number below ten
QueryName(n) == <<"Q", DigitChars[n + 1]>>

RowsOf(s, v, n) ==
    {i \in DOMAIN plot_df :
        plot_df[i].solution = s /\ plot_df[i].version = v /\ plot_df[i].query = QueryName(n)}

\* the table has exactly one row for each query 1..n_queries of each pair of
\* `pairs`, and no other row; a combination without an entry has duration 0 and
\* no duration is null
OneRowPerCombination(pairs) ==
    /\ \A p \in pairs : \A n \in 1..NQueries :
          /\ Cardinality(RowsOf(p[1], p[2], n)) = 1
          /\ EntriesOf(p[1], p[2], n) = {} => \A i \in RowsOf(p[1], p[2], n) : plot_df[i].duration = 0
    /\ \A i \in DOMAIN plot_df :
          /\ plot_df[i].duration # Null
          /\ \E p \in pairs : \E n \in 1..NQueries : i \in RowsOf(p[1], p[2], n)

\* C2 (as claimed): the table has exactly one row per (solution, version, query)
\* for every (solution, version) pair that survives the IO and query-number
\* filters and every query 1..n_queries.
C2_OneRowPerSurvivingPair ==
    (plot_pc = "returned" /\ plot_df # NoTable) => OneRowPerCombination(SurvivingPairs)

\* C2 (amended): the same, for the surviving pairs whose solution is a key of
\* COLORS.
C2_OneRowPerLegendPair ==
    plot_pc = "returned" => OneRowPerCombination({p \in SurvivingPairs : p[1] \in ColorKeys})

C2_Witness ==
    /\ plot_pc = "returned"
    /\ \E i, j \in DOMAIN plot_df : plot_df[i].duration = 0 /\ plot_df[j].duration > 0
    /\ \E p \in SurvivingPairs : p[1] \notin ColorKeys

\* C3 (as claimed): every key of COLORS that occurs in the timing CSV has a row.
C3_NoLegendSolutionDropped ==
    (plot_pc = "returned" /\ plot_df # NoTable) =>
        \A t \in DOMAIN timings :
            timings[t].solution \in ColorKeys =>
                \E i \in DOMAIN plot_df : plot_df[i].solution = timings[t].solution

\* C3 (amended): every key of COLORS that occurs in the timing CSV in an entry of
\* the configured IO mode with a query number up to n_queries has a row.
C3_NoConsideredLegendSolutionDropped ==
    plot_pc = "returned" =>
        \A t \in ConsideredEntries :
            timings[t].solution \in ColorKeys =>
                \E i \in DOMAIN plot_df : plot_df[i].solution = timings[t].solution

C3_Witness ==
    /\ plot_pc = "returned"
    /\ \E i, j \in DOMAIN plot_df : plot_df[i].solution # plot_df[j].solution
    /\ \E t \in ConsideredEntries : timings[t].query_number = NQueries

\* C8: each row reports the duration of the last entry of its combination in the
\* file among the entries of the configured IO mode with a query number up to
\* n_queries (the i-th entry has duration i); earlier entries, entries of the
\* other IO mode and entries of later queries never show.
C8_LastEntryWins ==
    plot_pc = "returned" =>
        \A p \in SurvivingPairs : \A n \in 1..NQueries : \A i \in RowsOf(p[1], p[2], n) :
            /\ EntriesOf(p[1], p[2], n) # {} =>
                  /\ plot_df[i].duration \in EntriesOf(p[1], p[2], n)
                  /\ \A e \in EntriesOf(p[1], p[2], n) : e <= plot_df[i].duration
            /\ EntriesOf(p[1], p[2], n) = {} => plot_df[i].duration = 0

C8_Witness ==
    /\ plot_pc = "returned"
    /\ \E i \in DOMAIN plot_df : plot_df[i].duration = 2
    /\ Len(timings) = 2
    /\ CombinationOf(timings[1]) = CombinationOf(timings[2])
    /\ Considered(timings[1])

ColorRank(s) == CHOOSE k \in DOMAIN COLORS : COLORS[k][1] = s

\* C10: every solution of the table is a key of COLORS, the rows of a solution
\* are together and the solutions follow each other in the key order of COLORS,
\* whatever the order of the file; the colors handed to the chart are those of
\* the table's solutions in that same order.
C10_LegendOrder ==
    plot_pc = "returned" =>
        /\ \A i \in DOMAIN plot_df : plot_df[i].solution \in ColorKeys
        /\ \A i, j \in DOMAIN plot_df :
              i < j => ColorRank(plot_df[i].solution) <= ColorRank(plot_df[j].solution)
        /\ \A i \in DOMAIN plot_df :
              \E k \in DOMAIN color_seq(plot_df) :
                  /\ color_seq(plot_df)[k] = COLORS[ColorRank(plot_df[i].solution)][2]
                  /\ k = Cardinality({plot_df[j].solution : j \in 1..i})

C10_Witness ==
    /\ plot_pc = "returned"
    /\ Len(timings) = 2
    /\ timings[1].solution = "dask"
    /\ timings[2].solution = "polars"
    /\ \E i, j \in DOMAIN plot_df : plot_df[i].solution = "polars" /\ plot_df[j].solution = "dask"

(***************************************************************************)
(* Claims about the dataset loaders                                        *)
(***************************************************************************)
FileOf(loader) ==
    CASE loader = "get_line_item_ds" -> "lineitem.parquet"
      [] loader = "get_orders_ds" -> "orders.parquet"
      [] loader = "get_customer_ds" -> "customer.parquet"
      [] loader = "get_region_ds" -> "region.parquet"
      [] loader = "get_nation_ds" -> "nation.parquet"
      [] loader = "get_supplier_ds" -> "supplier.parquet"
      [] loader = "get_part_ds" -> "part.parquet"
      [] loader = "get_part_supp_ds" -> "partsupp.parquet"

ReadsOf(loader) == {i \in DOMAIN read_log : read_log[i][2] = FileOf(loader)}

\* C4: in either execution mode each table is read from storage at most once in
\* the process, and a call returns the table that one read produced, also when
\* it names another base directory than the call that read it.
C4_ReadAtMostOnce ==
    /\ \A f \in Loaders : Cardinality(ReadsOf(f)) <= 1
    /\ last_call # NoCall =>
          /\ Cardinality(ReadsOf(last_call.loader)) = 1
          /\ \A i \in ReadsOf(last_call.loader) :
                last_call.returned = [path |-> read_log[i], deferred |-> INCLUDE_IO]
          /\ last_call.returned = loader_cache[last_call.loader]

C4_Witness ==
    /\ last_call # NoCall
    /\ loader_calls >= 2
    /\ Len(read_log) < loader_calls
    /\ last_call.base_dir # last_call.returned.path[1]

====
